---- MODULE Spec2Model ----
(***************************************************************************)
(* Office automation server: the feature smoke test                        *)
(* (office-server/test_all_features.py) and the PyInstaller packaging      *)
(* script (office-server/build.py).                                        *)
(*                                                                         *)
(* Spec          the smoke test's main(): health gate, three suites,       *)
(*               KeyboardInterrupt handling.                               *)
(* EndpointSpec  test_endpoint as a function of its arguments and of the   *)
(*               outcome of the HTTP exchange.                             *)
(* BuildSpec     build.py's main() over an abstract file system.           *)
(*                                                                         *)
(* print() is taken to succeed; only the banners and the per-request       *)
(* status tag are recorded.  JSON strings and arrays are kept by their     *)
(* length, which is all the code looks at (truthiness and len()).          *)
(***************************************************************************)
EXTENDS Integers, Sequences, FiniteSets, TLC

\* ---- bounds -------------------------------------------------------------
\* largest JSON number a response field takes
MaxNum == 2
\* longest JSON string / array a response field takes
MaxLen == 1
\* largest exit code a subprocess returns
MaxReturnCode == 2

\* ---- JSON values and the Python operations applied to them ---------------
JV(t, n) == [t |-> t, n |-> n]
Absent == JV("absent", 0)
JNull == JV("null", 0)
JTrue == JV("bool", 1)
JFalse == JV("bool", 0)

\* values a field of a response body can hold (or the key is absent)
JsonValues ==
    {JNull, JTrue, JFalse}
        \cup {JV("num", k) : k \in 0..MaxNum}
        \cup {JV("str", k) : k \in 0..MaxLen}
        \cup {JV("list", k) : k \in 0..MaxLen}

FieldValues == JsonValues \cup {Absent}

\* dict.get(key, default)
DictGet(d, key, default) == IF d[key] = Absent THEN default ELSE d[key]

\* bool(v)
Truthy(v) ==
    CASE v.t = "null" -> FALSE
      [] v.t = "absent" -> FALSE
      [] v.t = "bool" -> v.n = 1
      [] v.t = "num" -> v.n # 0
      [] OTHER -> v.n > 0

\* v == b for a Python bool b: bool is an int subclass, so 1 == True, 0 == False
PyEq(v, b) == v.t \in {"bool", "num"} /\ v.n = (IF b THEN 1 ELSE 0)

\* len(v) is defined
HasLen(v) == v.t \in {"str", "list"}

EmptyBody ==
    [success |-> Absent, error |-> Absent, message |-> Absent,
     image |-> Absent, shapes |-> Absent]

\* bodies of a JSON-object response; payload is the extra key the caller reads
Bodies(payload) ==
    {[success |-> s, error |-> e, message |-> m,
      image |-> (IF payload = "image" THEN p ELSE Absent),
      shapes |-> (IF payload = "shapes" THEN p ELSE Absent)] :
        s \in FieldValues, e \in {Absent, JV("str", 1)},
        m \in {Absent, JV("str", 1)},
        p \in (IF payload \in {"image", "shapes"} THEN FieldValues ELSE {Absent})}

\* what can happen to one HTTP exchange
Outcome(kind, exc, val, body) == [kind |-> kind, exc |-> exc, val |-> val, body |-> body]
NoOutcome == Outcome("none", "none", JNull, EmptyBody)
Outcomes(payload) ==
    {Outcome("raise", x, JNull, EmptyBody) :
        x \in {"Timeout", "ConnectionError", "JSONDecodeError", "KeyboardInterrupt"}}
        \cup {Outcome("json", "none", v, EmptyBody) : v \in JsonValues}
        \cup {Outcome("object", "none", JNull, b) : b \in Bodies(payload)}

\* ---- test_endpoint -------------------------------------------------------
IsException(exc) ==
    exc \in {"Timeout", "ConnectionError", "JSONDecodeError", "AttributeError", "TypeError"}

\* except requests.RequestException
EndpointCatches_requests(exc) == exc \in {"Timeout", "ConnectionError"}

\* except Exception
EndpointCatches(exc) == IsException(exc)

\* status from the truth value of success instead of ==
StatusOf_truthy(result, expected_success) ==
    IF Truthy(DictGet(result, "success", JNull)) = expected_success THEN "OK" ELSE "FAIL"

StatusOf(result, expected_success) ==
    IF PyEq(DictGet(result, "success", JNull), expected_success) THEN "OK" ELSE "FAIL"

ErrorResult == [EmptyBody EXCEPT !.success = JFalse, !.error = JV("str", 1)]

Return(raised, status, errLine, result) ==
    [raised |-> raised, status |-> status, errLine |-> errLine, result |-> result]

test_endpoint(method, endpoint, data, expected_success, o) ==
    LET exc == CASE o.kind = "raise" -> o.exc
                 [] o.kind = "json" -> "AttributeError"
                 [] OTHER -> "none"
    IN  IF exc = "none"
        THEN Return("none", StatusOf(o.body, expected_success),
                    ~Truthy(DictGet(o.body, "success", JNull)) /\ expected_success,
                    o.body)
        ELSE IF EndpointCatches(exc)
             THEN Return("none", "ERROR", FALSE, ErrorResult)
             ELSE Return(exc, "none", FALSE, EmptyBody)

\* ---- the suites ----------------------------------------------------------
test_word_features ==
    <<
    [app |-> "word", op |-> "req", method |-> "POST", endpoint |-> "/word/launch", data |-> "", post |-> "none"],
    [app |-> "word", op |-> "sleep", method |-> "", endpoint |-> "", data |-> "", post |-> "none"],
    [app |-> "word", op |-> "req", method |-> "POST", endpoint |-> "/word/create", data |-> "", post |-> "none"],
    [app |-> "word", op |-> "req", method |-> "POST", endpoint |-> "/word/write", data |-> "{\"text\": \"Hello World! This is a test document.\\n\\n\"}", post |-> "none"],
    [app |-> "word", op |-> "req", method |-> "GET", endpoint |-> "/word/read", data |-> "", post |-> "none"],
    [app |-> "word", op |-> "req", method |-> "POST", endpoint |-> "/word/write", data |-> "{\"text\": \"Bold and Red Text\\n\"}", post |-> "none"],
    [app |-> "word", op |-> "req", method |-> "POST", endpoint |-> "/word/set_font", data |-> "{\"font_name\": \"Arial\", \"font_size\": 16, \"bold\": true, \"color\": \"#FF0000\"}", post |-> "none"],
    [app |-> "word", op |-> "req", method |-> "POST", endpoint |-> "/word/write", data |-> "{\"text\": \"\\nCentered paragraph with double spacing.\\n\"}", post |-> "none"],
    [app |-> "word", op |-> "req", method |-> "POST", endpoint |-> "/word/set_paragraph", data |-> "{\"alignment\": \"center\", \"line_spacing\": 2.0}", post |-> "none"],
    [app |-> "word", op |-> "req", method |-> "POST", endpoint |-> "/word/add_hyperlink", data |-> "{\"url\": \"https://www.google.com\", \"display_text\": \"Visit Google\", \"tooltip\": \"Click to visit Google\"}", post |-> "none"],
    [app |-> "word", op |-> "req", method |-> "POST", endpoint |-> "/word/insert_break", data |-> "{\"type\": \"line\"}", post |-> "none"],
    [app |-> "word", op |-> "req", method |-> "POST", endpoint |-> "/word/write", data |-> "{\"text\": \"\\nAfter line break.\\n\"}", post |-> "none"],
    [app |-> "word", op |-> "req", method |-> "POST", endpoint |-> "/word/add_table", data |-> "{\"rows\": 3, \"cols\": 3, \"values\": [[\"Name\", \"Age\", \"City\"], [\"Alice\", \"25\", \"Seoul\"], [\"Bob\", \"30\", \"Busan\"]]}", post |-> "none"],
    [app |-> "word", op |-> "req", method |-> "POST", endpoint |-> "/word/find_replace", data |-> "{\"find\": \"Hello\", \"replace\": \"Hi\", \"replace_all\": true}", post |-> "none"],
    [app |-> "word", op |-> "req", method |-> "POST", endpoint |-> "/word/write", data |-> "{\"text\": \"\\n\\nThis should be a heading\\n\"}", post |-> "none"],
    [app |-> "word", op |-> "req", method |-> "POST", endpoint |-> "/word/set_style", data |-> "{\"style\": \"Heading 1\"}", post |-> "none"],
    [app |-> "word", op |-> "req", method |-> "POST", endpoint |-> "/word/select_all", data |-> "", post |-> "none"],
    [app |-> "word", op |-> "req", method |-> "GET", endpoint |-> "/word/get_selection", data |-> "", post |-> "none"],
    [app |-> "word", op |-> "req", method |-> "GET", endpoint |-> "/word/screenshot", data |-> "", post |-> "image"],
    [app |-> "word", op |-> "req", method |-> "POST", endpoint |-> "/word/close", data |-> "{\"save\": false}", post |-> "none"] >>

test_excel_features ==
    <<
    [app |-> "excel", op |-> "req", method |-> "POST", endpoint |-> "/excel/launch", data |-> "", post |-> "none"],
    [app |-> "excel", op |-> "sleep", method |-> "", endpoint |-> "", data |-> "", post |-> "none"],
    [app |-> "excel", op |-> "req", method |-> "POST", endpoint |-> "/excel/create", data |-> "", post |-> "none"],
    [app |-> "excel", op |-> "req", method |-> "POST", endpoint |-> "/excel/write_cell", data |-> "{\"cell\": \"A1\", \"value\": \"Product\"}", post |-> "none"],
    [app |-> "excel", op |-> "req", method |-> "POST", endpoint |-> "/excel/write_cell", data |-> "{\"cell\": \"B1\", \"value\": \"Price\"}", post |-> "none"],
    [app |-> "excel", op |-> "req", method |-> "POST", endpoint |-> "/excel/write_cell", data |-> "{\"cell\": \"C1\", \"value\": \"Quantity\"}", post |-> "none"],
    [app |-> "excel", op |-> "req", method |-> "POST", endpoint |-> "/excel/read_cell", data |-> "{\"cell\": \"A1\"}", post |-> "none"],
    [app |-> "excel", op |-> "req", method |-> "POST", endpoint |-> "/excel/write_range", data |-> "{\"start_cell\": \"A2\", \"values\": [[\"Apple\", 100, 10], [\"Banana\", 50, 20], [\"Orange\", 75, 15]]}", post |-> "none"],
    [app |-> "excel", op |-> "req", method |-> "POST", endpoint |-> "/excel/read_range", data |-> "{\"range\": \"A1:C4\"}", post |-> "values"],
    [app |-> "excel", op |-> "req", method |-> "POST", endpoint |-> "/excel/write_cell", data |-> "{\"cell\": \"D1\", \"value\": \"Total\"}", post |-> "none"],
    [app |-> "excel", op |-> "req", method |-> "POST", endpoint |-> "/excel/set_formula", data |-> "{\"cell\": \"D2\", \"formula\": \"=B2*C2\"}", post |-> "none"],
    [app |-> "excel", op |-> "req", method |-> "POST", endpoint |-> "/excel/set_formula", data |-> "{\"cell\": \"D3\", \"formula\": \"=B3*C3\"}", post |-> "none"],
    [app |-> "excel", op |-> "req", method |-> "POST", endpoint |-> "/excel/set_formula", data |-> "{\"cell\": \"D4\", \"formula\": \"=B4*C4\"}", post |-> "none"],
    [app |-> "excel", op |-> "req", method |-> "POST", endpoint |-> "/excel/set_formula", data |-> "{\"cell\": \"D5\", \"formula\": \"=SUM(D2:D4)\"}", post |-> "none"],
    [app |-> "excel", op |-> "req", method |-> "POST", endpoint |-> "/excel/read_cell", data |-> "{\"cell\": \"D5\"}", post |-> "none"],
    [app |-> "excel", op |-> "req", method |-> "POST", endpoint |-> "/excel/set_font", data |-> "{\"range\": \"A1:D1\", \"font_name\": \"Arial\", \"font_size\": 14, \"bold\": true, \"color\": \"#0000FF\"}", post |-> "none"],
    [app |-> "excel", op |-> "req", method |-> "POST", endpoint |-> "/excel/set_alignment", data |-> "{\"range\": \"A1:D1\", \"horizontal\": \"center\", \"vertical\": \"center\"}", post |-> "none"],
    [app |-> "excel", op |-> "req", method |-> "POST", endpoint |-> "/excel/set_column_width", data |-> "{\"column\": \"A\", \"auto_fit\": true}", post |-> "none"],
    [app |-> "excel", op |-> "req", method |-> "POST", endpoint |-> "/excel/set_column_width", data |-> "{\"column\": \"B\", \"width\": 15}", post |-> "none"],
    [app |-> "excel", op |-> "req", method |-> "POST", endpoint |-> "/excel/set_row_height", data |-> "{\"row\": 1, \"height\": 25}", post |-> "none"],
    [app |-> "excel", op |-> "req", method |-> "POST", endpoint |-> "/excel/set_fill", data |-> "{\"range\": \"A1:D1\", \"color\": \"#FFFF00\"}", post |-> "none"],
    [app |-> "excel", op |-> "req", method |-> "POST", endpoint |-> "/excel/set_border", data |-> "{\"range\": \"A1:D5\", \"style\": \"thin\", \"edges\": \"all\"}", post |-> "none"],
    [app |-> "excel", op |-> "req", method |-> "POST", endpoint |-> "/excel/set_number_format", data |-> "{\"range\": \"B2:B4\", \"format\": \"#,##0\"}", post |-> "none"],
    [app |-> "excel", op |-> "req", method |-> "POST", endpoint |-> "/excel/set_number_format", data |-> "{\"range\": \"D2:D5\", \"format\": \"#,##0\"}", post |-> "none"],
    [app |-> "excel", op |-> "req", method |-> "POST", endpoint |-> "/excel/write_cell", data |-> "{\"cell\": \"A7\", \"value\": \"Merged Header\"}", post |-> "none"],
    [app |-> "excel", op |-> "req", method |-> "POST", endpoint |-> "/excel/merge_cells", data |-> "{\"range\": \"A7:D7\"}", post |-> "none"],
    [app |-> "excel", op |-> "req", method |-> "GET", endpoint |-> "/excel/get_sheets", data |-> "", post |-> "none"],
    [app |-> "excel", op |-> "req", method |-> "POST", endpoint |-> "/excel/add_sheet", data |-> "{\"name\": \"TestSheet\"}", post |-> "none"],
    [app |-> "excel", op |-> "req", method |-> "POST", endpoint |-> "/excel/rename_sheet", data |-> "{\"old_name\": \"TestSheet\", \"new_name\": \"RenamedSheet\"}", post |-> "none"],
    [app |-> "excel", op |-> "req", method |-> "GET", endpoint |-> "/excel/get_sheets", data |-> "", post |-> "none"],
    [app |-> "excel", op |-> "req", method |-> "POST", endpoint |-> "/excel/delete_sheet", data |-> "{\"name\": \"RenamedSheet\"}", post |-> "none"],
    [app |-> "excel", op |-> "req", method |-> "POST", endpoint |-> "/excel/insert_row", data |-> "{\"row\": 2, \"count\": 1}", post |-> "none"],
    [app |-> "excel", op |-> "req", method |-> "POST", endpoint |-> "/excel/insert_column", data |-> "{\"column\": \"A\", \"count\": 1}", post |-> "none"],
    [app |-> "excel", op |-> "req", method |-> "POST", endpoint |-> "/excel/delete_row", data |-> "{\"row\": 2, \"count\": 1}", post |-> "none"],
    [app |-> "excel", op |-> "req", method |-> "POST", endpoint |-> "/excel/delete_column", data |-> "{\"column\": \"A\", \"count\": 1}", post |-> "none"],
    [app |-> "excel", op |-> "req", method |-> "POST", endpoint |-> "/excel/auto_filter", data |-> "{\"range\": \"A1:D5\"}", post |-> "none"],
    [app |-> "excel", op |-> "req", method |-> "POST", endpoint |-> "/excel/auto_filter", data |-> "{\"remove\": true}", post |-> "none"],
    [app |-> "excel", op |-> "req", method |-> "POST", endpoint |-> "/excel/freeze_panes", data |-> "{\"cell\": \"A2\"}", post |-> "none"],
    [app |-> "excel", op |-> "req", method |-> "POST", endpoint |-> "/excel/freeze_panes", data |-> "{\"unfreeze\": true}", post |-> "none"],
    [app |-> "excel", op |-> "req", method |-> "GET", endpoint |-> "/excel/screenshot", data |-> "", post |-> "image"],
    [app |-> "excel", op |-> "req", method |-> "POST", endpoint |-> "/excel/close", data |-> "{\"save\": false}", post |-> "none"] >>

test_powerpoint_features ==
    <<
    [app |-> "powerpoint", op |-> "req", method |-> "POST", endpoint |-> "/powerpoint/launch", data |-> "", post |-> "none"],
    [app |-> "powerpoint", op |-> "sleep", method |-> "", endpoint |-> "", data |-> "", post |-> "none"],
    [app |-> "powerpoint", op |-> "req", method |-> "POST", endpoint |-> "/powerpoint/create", data |-> "", post |-> "none"],
    [app |-> "powerpoint", op |-> "req", method |-> "POST", endpoint |-> "/powerpoint/add_slide", data |-> "{\"layout\": 1}", post |-> "none"],
    [app |-> "powerpoint", op |-> "req", method |-> "POST", endpoint |-> "/powerpoint/add_slide", data |-> "{\"layout\": 2}", post |-> "none"],
    [app |-> "powerpoint", op |-> "req", method |-> "GET", endpoint |-> "/powerpoint/get_slide_count", data |-> "", post |-> "none"],
    [app |-> "powerpoint", op |-> "req", method |-> "POST", endpoint |-> "/powerpoint/write_text", data |-> "{\"slide\": 1, \"shape\": 1, \"text\": \"Presentation Title\"}", post |-> "none"],
    [app |-> "powerpoint", op |-> "req", method |-> "POST", endpoint |-> "/powerpoint/write_text", data |-> "{\"slide\": 1, \"shape\": 2, \"text\": \"Subtitle goes here\"}", post |-> "none"],
    [app |-> "powerpoint", op |-> "req", method |-> "POST", endpoint |-> "/powerpoint/add_textbox", data |-> "{\"slide\": 2, \"text\": \"Custom textbox content\", \"left\": 100, \"top\": 300, \"width\": 400, \"height\": 50}", post |-> "none"],
    [app |-> "powerpoint", op |-> "req", method |-> "POST", endpoint |-> "/powerpoint/set_font", data |-> "{\"slide\": 1, \"shape\": 1, \"font_name\": \"Arial\", \"font_size\": 44, \"bold\": true, \"color\": \"#0066CC\"}", post |-> "none"],
    [app |-> "powerpoint", op |-> "req", method |-> "POST", endpoint |-> "/powerpoint/read_slide", data |-> "{\"slide\": 1}", post |-> "shapes"],
    [app |-> "powerpoint", op |-> "req", method |-> "POST", endpoint |-> "/powerpoint/set_background", data |-> "{\"slide\": 2, \"color\": \"#E0E0E0\"}", post |-> "none"],
    [app |-> "powerpoint", op |-> "req", method |-> "POST", endpoint |-> "/powerpoint/add_animation", data |-> "{\"slide\": 1, \"shape\": 1, \"effect\": \"fade\", \"trigger\": \"on_click\"}", post |-> "none"],
    [app |-> "powerpoint", op |-> "req", method |-> "GET", endpoint |-> "/powerpoint/screenshot", data |-> "", post |-> "image"],
    [app |-> "powerpoint", op |-> "req", method |-> "POST", endpoint |-> "/powerpoint/close", data |-> "{\"save\": false}", post |-> "none"] >>

MainSleep == [app |-> "main", op |-> "sleep", method |-> "", endpoint |-> "", data |-> "", post |-> "none"]

\* the Word suite without its close request
Steps_noclose ==
    SubSeq(test_word_features, 1, Len(test_word_features) - 1) \o <<MainSleep>>
        \o test_excel_features \o <<MainSleep>> \o test_powerpoint_features

\* the body of main's try block
Steps ==
    test_word_features \o <<MainSleep>> \o test_excel_features \o <<MainSleep>>
        \o test_powerpoint_features

\* a request as issued: app is the first segment of the URL path
HealthRequest == [app |-> "health", method |-> "GET", endpoint |-> "/health", data |-> ""]

RequestOf(s) == [app |-> s.app, method |-> s.method, endpoint |-> s.endpoint, data |-> s.data]

\* the code after test_endpoint returns raises TypeError
PostRaises(post, result) ==
    CASE post = "image" ->
            /\ Truthy(DictGet(result, "success", JNull))
            /\ Truthy(DictGet(result, "image", JNull))
            /\ ~HasLen(result.image)
      [] post = "shapes" ->
            /\ Truthy(DictGet(result, "success", JNull))
            /\ ~HasLen(DictGet(result, "shapes", JV("list", 0)))
      [] OTHER -> FALSE

\* if "success" not in health
HealthOk_haskey(health) == health.success # Absent

\* if not health.get("success")
HealthOk(health) == Truthy(DictGet(health, "success", JNull))

\* no except clause
MainCatches_none(exc) == FALSE

\* except KeyboardInterrupt
MainCatches(exc) == exc = "KeyboardInterrupt"

\* ---- build.py: helpers ----------------------------------------------------
\* no platform check
OnWindows_any(p) == TRUE

\* if sys.platform != 'win32'
OnWindows(p) == p = "win32"

\* subprocess.run(..., check=check) raises CalledProcessError
RunRaises(check, code) == check /\ code # 0

\* pip run with check=False
PipCheck_off == FALSE

\* check= of the pip invocation
PipCheck == TRUE

\* check= of the PyInstaller invocation
PyInstallerCheck == FALSE

\* only build/ is cleaned
FoldersToClean_build == <<"build">>

\* for folder in ['build', 'dist']
FoldersToClean == <<"build", "dist">>

\* if result.returncode < 0
BuildFailed_negative(code) == code < 0

\* if result.returncode != 0
BuildFailed(code) == code # 0

\* os.path.exists(os.path.join('dist', 'office-server.exe'))
ExeExists(dist, exe) == dist \in {"old_dir", "new_dir"} /\ exe # "none"

\* what shutil.rmtree can do to an existing folder whose exe is e:
\* remove it, or raise having removed nothing or part of it
Rmtree(f, e) ==
    IF f = "old_file"
    THEN {[raised |-> TRUE, f |-> f, e |-> e]}
    ELSE {[raised |-> FALSE, f |-> "absent", e |-> "none"]}
            \cup {[raised |-> TRUE, f |-> f, e |-> x] : x \in {e, "none"}}

\* one pass of the clean loop over a folder
CleanFolder(name, f, e) ==
    IF (\E i \in 1..Len(FoldersToClean) : FoldersToClean[i] = name) /\ f # "absent"
    THEN Rmtree(f, e)
    ELSE {[raised |-> FALSE, f |-> f, e |-> e]}

VARIABLES
    pc,          \* position of the running script
    ip,          \* index in Steps of the statement main is at
    sent,        \* HTTP requests issued so far, in order
    resp,        \* outcome of the last HTTP exchange
    expected,    \* expected_success of the last test_endpoint call
    status,      \* tag of the last status line: OK, FAIL, ERROR
    errLine,     \* the last call printed an "Error:" line
    result,      \* value returned by the last test_endpoint call
    raised,      \* exception that left the last test_endpoint call
    banners,     \* banners printed so far
    kbd,         \* where a KeyboardInterrupt was raised
    sentAtKbd,   \* number of requests issued when the suites were interrupted
    platform,    \* sys.platform
    buildDir,    \* build/: absent, old_dir, old_file, new_dir
    distDir,     \* dist/: absent, old_dir, old_file, new_dir
    exe,         \* dist/office-server.exe: none, old, new
    fs0,         \* build/, dist/ and the exe when the script started
    procs,       \* subprocesses run so far, in order
    pipRc,       \* exit code of pip
    importOk,    \* win32com.client and pythoncom were imported
    rc,          \* result.returncode of PyInstaller
    out,         \* markers of the lines printed so far, in order
    exitCode     \* exit status of the build script: running, 0, 1

call == <<resp, expected, status, errLine, result, raised>>
trest == <<ip, sent, resp, expected, status, errLine, result, raised, banners, kbd, sentAtKbd>>
tvars == <<pc, trest>>
bvars == <<platform, buildDir, distDir, exe, fs0, procs, pipRc, importOk, rc, out, exitCode>>
vars == <<tvars, bvars>>

\* the variables of a script that is not the one running
TestIdle ==
    /\ ip = 1
    /\ sent = <<>>
    /\ resp = NoOutcome
    /\ expected = TRUE
    /\ status = "none"
    /\ errLine = FALSE
    /\ result = EmptyBody
    /\ raised = "none"
    /\ banners = {}
    /\ kbd = {}
    /\ sentAtKbd = 0

BuildIdle ==
    /\ platform = "win32"
    /\ buildDir = "absent"
    /\ distDir = "absent"
    /\ exe = "none"
    /\ fs0 = <<"absent", "absent", "none">>
    /\ procs = <<>>
    /\ pipRc = 0
    /\ importOk = FALSE
    /\ rc = 0
    /\ out = <<>>
    /\ exitCode = "running"

\* ---- test_all_features.py: main ------------------------------------------
Init ==
    /\ pc = "health"
    /\ TestIdle
    /\ BuildIdle

\* state change of one test_endpoint call that ended with outcome o
Called(o, r) ==
    /\ resp' = o
    /\ expected' = TRUE
    /\ status' = r.status
    /\ errLine' = r.errLine
    /\ result' = r.result
    /\ raised' = r.raised

\* test_health: requests.get is entered
HealthSend ==
    /\ pc = "health"
    /\ sent' = Append(sent, HealthRequest)
    /\ pc' = "health_wait"
    /\ UNCHANGED <<ip, call, banners, kbd, sentAtKbd, bvars>>

\* test_health returns (or is left by an exception) and main tests the result
HealthReturn ==
    /\ pc = "health_wait"
    /\ \E o \in Outcomes("none") :
         LET r == test_endpoint("GET", "/health", "", TRUE, o) IN
         /\ Called(o, r)
         /\ kbd' = IF o.exc = "KeyboardInterrupt" THEN kbd \cup {"health"} ELSE kbd
         /\ IF r.raised # "none"
            THEN /\ pc' = IF r.raised = "KeyboardInterrupt" THEN "killed" ELSE "crashed"
                 /\ UNCHANGED banners
            ELSE IF ~HealthOk(r.result)
            THEN /\ pc' = "returned"
                 /\ banners' = banners \cup {"Server not running!"}
            ELSE /\ pc' = "suite"
                 /\ UNCHANGED banners
    /\ UNCHANGED <<ip, sent, sentAtKbd, bvars>>

\* exception exc reaches main's try statement
Propagate(exc) ==
    IF MainCatches(exc)
    THEN /\ pc' = "after_try"
         /\ banners' = banners \cup {"[Interrupted by user]"}
    ELSE /\ pc' = IF exc = "KeyboardInterrupt" THEN "killed" ELSE "crashed"
         /\ UNCHANGED banners

Advance ==
    /\ ip' = ip + 1
    /\ pc' = IF ip + 1 > Len(Steps) THEN "after_try" ELSE "suite"

\* a test_endpoint call of a suite enters requests.get / requests.post
Send ==
    /\ pc = "suite"
    /\ Steps[ip].op = "req"
    /\ sent' = Append(sent, RequestOf(Steps[ip]))
    /\ pc' = "wait"
    /\ UNCHANGED <<ip, call, banners, kbd, sentAtKbd, bvars>>

\* the call returns and the suite handles its result
Receive ==
    /\ pc = "wait"
    /\ \E o \in Outcomes(Steps[ip].post) :
         LET r == test_endpoint(Steps[ip].method, Steps[ip].endpoint, Steps[ip].data, TRUE, o) IN
         /\ Called(o, r)
         /\ kbd' = IF o.exc = "KeyboardInterrupt" THEN kbd \cup {"suite"} ELSE kbd
         /\ sentAtKbd' = IF o.exc = "KeyboardInterrupt" THEN Len(sent) ELSE sentAtKbd
         /\ IF r.raised # "none"
            THEN /\ Propagate(r.raised)
                 /\ UNCHANGED ip
            ELSE IF PostRaises(Steps[ip].post, r.result)
            THEN /\ Propagate("TypeError")
                 /\ UNCHANGED ip
            ELSE /\ Advance
                 /\ UNCHANGED banners
    /\ UNCHANGED <<sent, bvars>>

\* time.sleep(1)
Sleep ==
    /\ pc = "suite"
    /\ Steps[ip].op = "sleep"
    /\ Advance
    /\ UNCHANGED <<sent, call, banners, kbd, sentAtKbd, bvars>>

\* KeyboardInterrupt between two test_endpoint calls of the suites (print, sleep)
Interrupt ==
    /\ pc = "suite"
    /\ Propagate("KeyboardInterrupt")
    /\ kbd' = kbd \cup {"suite"}
    /\ sentAtKbd' = Len(sent)
    /\ UNCHANGED <<ip, sent, call, bvars>>

\* the banner after the try statement, and main returns
Finish ==
    /\ pc = "after_try"
    /\ banners' = banners \cup {"All tests completed!"}
    /\ pc' = "returned"
    /\ UNCHANGED <<ip, sent, call, kbd, sentAtKbd, bvars>>

\* KeyboardInterrupt outside the try statement
InterruptOutside ==
    /\ pc \in {"health", "after_try"}
    /\ kbd' = kbd \cup {IF pc = "health" THEN "health" ELSE "final"}
    /\ pc' = "killed"
    /\ UNCHANGED <<ip, sent, call, banners, sentAtKbd, bvars>>

Next ==
    \/ HealthSend
    \/ HealthReturn
    \/ Send
    \/ Receive
    \/ Sleep
    \/ Interrupt
    \/ Finish
    \/ InterruptOutside

Spec == Init /\ [][Next]_vars

\* ---- test_endpoint on its own ----------------------------------------------
RequestSteps == {i \in 1..Len(Steps) : Steps[i].op = "req"}

EndpointInit ==
    /\ pc = "endpoint"
    /\ ip \in RequestSteps
    /\ sent = <<>>
    /\ resp = NoOutcome
    /\ expected \in BOOLEAN
    /\ status = "none"
    /\ errLine = FALSE
    /\ result = EmptyBody
    /\ raised = "none"
    /\ banners = {}
    /\ kbd = {}
    /\ sentAtKbd = 0
    /\ BuildIdle

\* test_endpoint(method, endpoint, data, expected_success)
EndpointCall ==
    /\ pc = "endpoint"
    /\ \E o \in Outcomes(Steps[ip].post) :
         LET r == test_endpoint(Steps[ip].method, Steps[ip].endpoint, Steps[ip].data, expected, o) IN
         /\ resp' = o
         /\ status' = r.status
         /\ errLine' = r.errLine
         /\ result' = r.result
         /\ raised' = r.raised
    /\ sent' = Append(sent, RequestOf(Steps[ip]))
    /\ pc' = "endpoint_done"
    /\ UNCHANGED <<ip, expected, banners, kbd, sentAtKbd, bvars>>

EndpointNext == EndpointCall

EndpointSpec == EndpointInit /\ [][EndpointNext]_vars

\* ---- properties of test_endpoint (EndpointSpec) ----------------------------
\* C1: for a JSON-object response body and either value of expected_success,
\* test_endpoint prints status OK exactly when the body's success value equals
\* expected_success (Python ==, under which 1 equals True and 0 equals False;
\* a missing key reads as None and equals neither) and FAIL otherwise, and it
\* returns the response body unchanged.
C1_StatusAndBody ==
    (pc = "endpoint_done" /\ resp.kind = "object") =>
        LET s == resp.body.success
            equal == s.t \in {"bool", "num"} /\ s.n = (IF expected THEN 1 ELSE 0)
        IN  /\ status = (IF equal THEN "OK" ELSE "FAIL")
            /\ raised = "none"
            /\ result = resp.body

\* a body without a success key was answered FAIL although False was expected
C1_Witness ==
    /\ pc = "endpoint_done"
    /\ resp.kind = "object"
    /\ resp.body.success = Absent
    /\ ~expected
    /\ status = "FAIL"
    /\ result = resp.body

\* C7: no Exception leaves test_endpoint: when the request fails or times out,
\* the body is not JSON, or the parsed body is not an object, it prints an
\* [ERROR] line and returns {"success": False, "error": <message>}; whenever it
\* returns, the returned value is a dict whose success can be read.
C7_NoExceptionEscapes ==
    pc = "endpoint_done" =>
        /\ ~IsException(raised)
        /\ (resp.kind = "json" \/ (resp.kind = "raise" /\ resp.exc # "KeyboardInterrupt")) =>
              /\ raised = "none"
              /\ status = "ERROR"
              /\ result.success = JFalse
              /\ result.error.t = "str"
              /\ result.message = Absent
        /\ raised = "none" => DictGet(result, "success", JNull) \in JsonValues

\* a JSON null body was turned into the error dict
C7_Witness ==
    /\ pc = "endpoint_done"
    /\ resp.kind = "json"
    /\ resp.val = JNull
    /\ status = "ERROR"
    /\ result.success = JFalse

\* ---- properties of the smoke test's main (Spec) -----------------------------
Apps == {"word", "excel", "powerpoint"}

Terminated == pc \in {"returned", "killed", "crashed"}

Completed == "All tests completed!" \in banners

\* the requests issued to one application, in order
AppSent(app) == SelectSeq(sent, LAMBDA r : r.app = app)

Path(app, name) ==
    CASE app = "word" ->
            [launch |-> "/word/launch", create |-> "/word/create",
             screenshot |-> "/word/screenshot", close |-> "/word/close"][name]
      [] app = "excel" ->
            [launch |-> "/excel/launch", create |-> "/excel/create",
             screenshot |-> "/excel/screenshot", close |-> "/excel/close"][name]
      [] app = "powerpoint" ->
            [launch |-> "/powerpoint/launch", create |-> "/powerpoint/create",
             screenshot |-> "/powerpoint/screenshot", close |-> "/powerpoint/close"][name]

\* main is past the last statement of the application's suite
SuiteDone(app) == \A i \in 1..Len(Steps) : Steps[i].app = app => i < ip

\* C2: in each suite the requests follow launch -> create -> operate ->
\* screenshot -> close: the first request to an application is POST launch, the
\* second POST create, a close is POST with save=false, directly follows GET
\* screenshot and is the last request to the application, nothing precedes the
\* launch, and a suite that has run to its end has issued its close.
C2_SuiteOrder ==
    \A app \in Apps :
        LET q == AppSent(app)
            n == Len(q)
        IN  /\ n >= 1 => (q[1].endpoint = Path(app, "launch") /\ q[1].method = "POST")
            /\ n >= 2 => (q[2].endpoint = Path(app, "create") /\ q[2].method = "POST")
            /\ \A i \in 1..n :
                 /\ q[i].endpoint = Path(app, "launch") => i = 1
                 /\ q[i].endpoint = Path(app, "create") => i = 2
                 /\ q[i].endpoint = Path(app, "screenshot") => (i > 2 /\ i >= n - 1)
                 /\ q[i].endpoint = Path(app, "close") =>
                       /\ i = n
                       /\ i > 3
                       /\ q[i].method = "POST"
                       /\ q[i].data = "{\"save\": false}"
                       /\ q[i - 1].endpoint = Path(app, "screenshot")
                       /\ q[i - 1].method = "GET"
            /\ SuiteDone(app) => (n >= 4 /\ q[n].endpoint = Path(app, "close"))

\* all three suites ran to their end
C2_Witness ==
    /\ pc = "returned"
    /\ kbd = {}
    /\ Completed
    /\ \A app \in Apps : SuiteDone(app) /\ Len(AppSent(app)) >= 4

\* every request of the script, in program order
AllRequests ==
    LET reqs == SelectSeq(Steps, LAMBDA s : s.op = "req")
    IN  <<HealthRequest>> \o [i \in 1..Len(reqs) |-> RequestOf(reqs[i])]

\* C3: once the health check has succeeded and without a KeyboardInterrupt,
\* main issues every listed request exactly once in program order, whatever
\* the outcome of any earlier request.
C3_SameRequestsEveryRun ==
    (Terminated /\ kbd = {} /\ "Server not running!" \notin banners) => sent = AllRequests

\* C6: when the health check does not return a body whose success is truthy,
\* main stops there: no request follows the health request and "All tests
\* completed!" is not printed.
C6_HealthGate ==
    [][/\ (pc = "health_wait" /\ ~Truthy(DictGet(result', "success", JNull))) =>
             /\ pc' \in {"returned", "killed"}
             /\ sent' = <<HealthRequest>>
             /\ ~Completed'
       /\ (pc \in {"returned", "killed"}) => (sent' = sent /\ banners' = banners)]_vars

\* the health request raised and main returned after one request
C6_Witness ==
    /\ pc = "returned"
    /\ resp.kind = "raise"
    /\ sent = <<HealthRequest>>
    /\ banners = {"Server not running!"}

\* C10: a KeyboardInterrupt raised while the suites run is caught by main: no
\* request is issued after it, and main goes on to print "All tests completed!"
\* and return.
C10_InterruptCaught ==
    /\ "suite" \in kbd =>
          /\ Len(sent) = sentAtKbd
          /\ "[Interrupted by user]" \in banners
    /\ ("suite" \in kbd /\ "final" \notin kbd) =>
          /\ pc \in {"after_try", "returned"}
          /\ pc = "returned" => Completed

\* Word was launched, the interrupt came, and main returned without a close
C10_Witness ==
    /\ pc = "returned"
    /\ "suite" \in kbd
    /\ Completed
    /\ Len(AppSent("word")) = 1
    /\ AppSent("word")[1].endpoint = "/word/launch"

\* ---- build.py: main --------------------------------------------------------
Platforms == {"win32", "linux", "darwin"}

\* build/, dist/ and the exe as a previous run or the user can have left them
InitialTrees ==
    {<<b, d, e>> \in {"absent", "old_dir", "old_file"} \X {"absent", "old_dir", "old_file"} \X {"none", "old"} :
        e = "old" => d = "old_dir"}

BuildInit ==
    /\ pc = "build"
    /\ TestIdle
    /\ platform \in Platforms
    /\ fs0 \in InitialTrees
    /\ buildDir = fs0[1]
    /\ distDir = fs0[2]
    /\ exe = fs0[3]
    /\ procs = <<>>
    /\ pipRc = 0
    /\ importOk = FALSE
    /\ rc = 0
    /\ out = <<>>
    /\ exitCode = "running"

Exit(code) ==
    /\ pc' = "exited"
    /\ exitCode' = code

\* the platform check
CheckPlatform ==
    /\ pc = "build"
    /\ IF ~OnWindows(platform)
       THEN /\ out' = Append(out, "ERROR: This script must be run on Windows")
            /\ Exit("1")
       ELSE /\ pc' = "pip"
            /\ UNCHANGED <<out, exitCode>>
    /\ UNCHANGED <<platform, buildDir, distDir, exe, fs0, procs, pipRc, importOk, rc, trest>>

\* [1/4] pip install -r requirements.txt
InstallDependencies ==
    /\ pc = "pip"
    /\ procs' = Append(procs, "pip")
    /\ \E code \in 0..MaxReturnCode :
         /\ pipRc' = code
         /\ IF RunRaises(PipCheck, code)
            THEN /\ out' = out \o <<"[1/4]", "Traceback">>
                 /\ Exit("1")
            ELSE /\ out' = Append(out, "[1/4]")
                 /\ pc' = "verify"
                 /\ UNCHANGED exitCode
    /\ UNCHANGED <<platform, buildDir, distDir, exe, fs0, importOk, rc, trest>>

\* [2/4] import win32com.client, pythoncom
VerifyPywin32 ==
    /\ pc = "verify"
    /\ \E ok \in BOOLEAN :
         /\ importOk' = ok
         /\ IF ok
            THEN /\ out' = out \o <<"[2/4]", "pywin32 OK">>
                 /\ pc' = "clean"
                 /\ UNCHANGED exitCode
            ELSE /\ out' = out \o <<"[2/4]", "ERROR: pywin32 not properly installed">>
                 /\ Exit("1")
    /\ UNCHANGED <<platform, buildDir, distDir, exe, fs0, procs, pipRc, rc, trest>>

\* [3/4] the clean loop over build/ and dist/
Clean ==
    /\ pc = "clean"
    /\ \E b \in CleanFolder("build", buildDir, "none") :
         /\ buildDir' = b.f
         /\ IF b.raised
            THEN /\ out' = out \o <<"[3/4]", "Traceback">>
                 /\ Exit("1")
                 /\ UNCHANGED <<distDir, exe>>
            ELSE \E d \in CleanFolder("dist", distDir, exe) :
                 /\ distDir' = d.f
                 /\ exe' = d.e
                 /\ IF d.raised
                    THEN /\ out' = out \o <<"[3/4]", "Traceback">>
                         /\ Exit("1")
                    ELSE /\ out' = Append(out, "[3/4]")
                         /\ pc' = "pyinstaller"
                         /\ UNCHANGED exitCode
    /\ UNCHANGED <<platform, fs0, procs, pipRc, importOk, rc, trest>>

\* what a PyInstaller run can leave in a folder
Rebuilt(f) == IF f = "absent" THEN {"absent", "new_dir"} ELSE {f}

\* [4/4] python -m PyInstaller --onefile ... server.py
RunPyInstaller ==
    /\ pc = "pyinstaller"
    /\ procs' = Append(procs, "PyInstaller")
    /\ \E code \in 0..MaxReturnCode, b \in Rebuilt(buildDir), d \in Rebuilt(distDir), wrote \in BOOLEAN :
         /\ rc' = code
         /\ buildDir' = b
         /\ distDir' = d
         /\ exe' = IF wrote /\ d \in {"old_dir", "new_dir"} THEN "new" ELSE exe
         /\ IF RunRaises(PyInstallerCheck, code)
            THEN /\ out' = out \o <<"[4/4]", "Traceback">>
                 /\ Exit("1")
            ELSE /\ out' = Append(out, "[4/4]")
                 /\ pc' = "check"
                 /\ UNCHANGED exitCode
    /\ UNCHANGED <<platform, fs0, pipRc, importOk, trest>>

\* the return code and output checks, and the final report
CheckResult ==
    /\ pc = "check"
    /\ IF BuildFailed(rc)
       THEN /\ out' = Append(out, "ERROR: PyInstaller build failed")
            /\ Exit("1")
       ELSE IF ExeExists(distDir, exe)
       THEN /\ out' = Append(out, "BUILD SUCCESSFUL!")
            /\ Exit("0")
       ELSE /\ out' = Append(out, "ERROR: Output file not found")
            /\ Exit("1")
    /\ UNCHANGED <<platform, buildDir, distDir, exe, fs0, procs, pipRc, importOk, rc, trest>>

BuildNext ==
    \/ CheckPlatform
    \/ InstallDependencies
    \/ VerifyPywin32
    \/ Clean
    \/ RunPyInstaller
    \/ CheckResult

BuildSpec == BuildInit /\ [][BuildNext]_vars

\* ---- properties of build.py (BuildSpec) -------------------------------------
Tree == <<buildDir, distDir, exe>>

Ran(p) == \E i \in 1..Len(procs) : procs[i] = p

Printed(line) == \E i \in 1..Len(out) : out[i] = line

StepMarkers == <<"[1/4]", "[2/4]", "[3/4]", "[4/4]">>

IsPrefix(s, u) == Len(s) <= Len(u) /\ \A i \in 1..Len(s) : s[i] = u[i]

\* C4: off Windows the build exits with status 1 before it runs a subprocess
\* and before it removes build/ or dist/.
C4_WindowsOnly ==
    (platform # "win32" /\ pc # "build") =>
        /\ pc = "exited"
        /\ exitCode = "1"
        /\ procs = <<>>
        /\ Tree = fs0

\* on linux, with an old dist/ in place, the script has exited
C4_Witness ==
    /\ platform = "linux"
    /\ pc = "exited"
    /\ exitCode = "1"
    /\ fs0[2] = "old_dir"

\* C5: "BUILD SUCCESSFUL!" is printed only when PyInstaller returned 0 and
\* dist/office-server.exe exists afterwards; a run that reached the PyInstaller
\* step without both exits with status 1 and without that banner.
C5_SuccessBanner ==
    LET exists == distDir \in {"old_dir", "new_dir"} /\ exe # "none" IN
    /\ Printed("BUILD SUCCESSFUL!") => (Ran("PyInstaller") /\ rc = 0 /\ exists)
    /\ (pc = "exited" /\ Ran("PyInstaller") /\ ~(rc = 0 /\ exists)) =>
          (exitCode = "1" /\ ~Printed("BUILD SUCCESSFUL!"))

\* PyInstaller returned 0 but left no exe, and the build failed
C5_Witness ==
    /\ pc = "exited"
    /\ Ran("PyInstaller")
    /\ rc = 0
    /\ exe = "none"
    /\ exitCode = "1"
    /\ Printed("ERROR: Output file not found")

\* C8: the steps run in the order [1/4] install, [2/4] verify, [3/4] clean,
\* [4/4] PyInstaller, and when pip returns non-zero or the pywin32 imports fail
\* the build stops before the clean step: build/ and dist/ are as they were and
\* PyInstaller is never run.
C8_StepOrder ==
    /\ IsPrefix(SelectSeq(out, LAMBDA l : \E i \in 1..4 : StepMarkers[i] = l), StepMarkers)
    /\ IsPrefix(procs, <<"pip", "PyInstaller">>)
    /\ Ran("pip") => Printed("[1/4]")
    /\ Ran("PyInstaller") => (Printed("[3/4]") /\ Printed("[4/4]"))
    /\ (pipRc # 0 \/ (Printed("[2/4]") /\ ~importOk)) =>
          /\ pc = "exited"
          /\ exitCode = "1"
          /\ Tree = fs0
          /\ ~Printed("[3/4]")
          /\ ~Ran("PyInstaller")

\* pip failed with an old dist/office-server.exe in place
C8_Witness ==
    /\ pipRc = 1
    /\ pc = "exited"
    /\ fs0 = <<"old_dir", "old_dir", "old">>
    /\ Tree = fs0

\* C9: when PyInstaller is invoked neither build/ nor dist/ of a previous run
\* exists, so a reported dist/office-server.exe was written by this run, and
\* after a failed PyInstaller step no office-server.exe of an earlier build is
\* left in dist/.
C9_NoStaleArtifact ==
    /\ pc = "pyinstaller" => (buildDir = "absent" /\ distDir = "absent")
    /\ Printed("BUILD SUCCESSFUL!") => exe = "new"
    /\ (Ran("PyInstaller") /\ pc = "exited" /\ exitCode = "1") => exe # "old"

\* an old exe was in dist/ and the reported one is new
C9_Witness ==
    /\ Printed("BUILD SUCCESSFUL!")
    /\ fs0[3] = "old"
    /\ exe = "new"
====
